---- MODULE Spec2Model ----
(***************************************************************************)
(* Model of crawl_ultravox_docs.py: the text chunker (chunk_text), the     *)
(* enricher (process_chunk), the store writer (insert_chunk), the document *)
(* pipeline (process_and_store_document) and the crawl orchestrator        *)
(* (crawl_parallel) running on a single-threaded asyncio event loop.       *)
(*                                                                         *)
(* A text is a sequence of one-character strings.  Python offsets are      *)
(* 0-based; TLA+ sequences are 1-based, so text[a:b] is SubSeq(t, a+1, b). *)
(***************************************************************************)
EXTENDS Integers, Sequences, FiniteSets, TLC

\* ------------------------------------------------------------------ bounds
\* Texts handed to chunk_text are concatenations of at most MaxTokens tokens.
MaxTokens == 4
\* chunk_size ranges over 1..MaxChunkSize.
MaxChunkSize == 8

\* -------------------------------------------------------- text primitives
Max(a, b) == IF a >= b THEN a ELSE b

Min(a, b) == IF a <= b THEN a ELSE b

\* Characters that str.strip() removes (the only whitespace in the alphabet).
IsSpace(c) == c \in {" ", "\n"}

\* The three delimiters chunk_text searches for.
\* The backquote character is written "~": a backquote cannot appear in a
\* TLA+ string.
TICK == "~"

FENCE == <<TICK, TICK, TICK>>

PARA == <<"\n", "\n">>

SENTENCE == <<".", " ">>

\* Building blocks of the input texts: an ordinary letter, a blank, and the
\* three delimiters.
Tokens == {<<"a">>, <<" ">>, PARA, SENTENCE, FENCE}

RECURSIVE TextsUpTo(_)
TextsUpTo(n) ==
  IF n = 0 THEN {<<>>}
  ELSE LET prev == TextsUpTo(n - 1)
       IN  prev \cup {t \o tok : t \in prev, tok \in Tokens}

\* Python slice text[a:b] for 0 <= a, with b clamped to len(text).
Slice(t, a, b) == SubSeq(t, a + 1, Min(b, Len(t)))

\* str.strip(): drop leading and trailing whitespace.
strip(s) ==
  LET keep == {i \in 1..Len(s) : ~IsSpace(s[i])}
  IN  IF keep = {} THEN <<>>
      ELSE LET lo == CHOOSE i \in keep : \A j \in keep : i <= j
               hi == CHOOSE i \in keep : \A j \in keep : i >= j
           IN  SubSeq(s, lo, hi)

\* str.rfind(pat): highest 0-based offset at which pat occurs in s, else -1.
rfind(s, pat) ==
  LET hits == {i \in 0..(Len(s) - Len(pat)) : SubSeq(s, i + 1, i + Len(pat)) = pat}
  IN  IF hits = {} THEN -1
      ELSE CHOOSE i \in hits : \A j \in hits : i >= j

\* The test (pat in s).
Contains(s, pat) == rfind(s, pat) # -1

\* A variant of PastThreshold that accepts every offset at which a delimiter
\* was found.
PastThresholdAny(offset, chunk_size) == offset >= 0

\* offset > chunk_size * 0.3.  For every chunk_size used here the float
\* product compares exactly as the rational 3*chunk_size/10 does.
PastThreshold(offset, chunk_size) == 10 * offset > 3 * chunk_size

\* ------------------------------------------------------------- chunk_text
\* A variant of AdjustedEnd in which a candidate that fails the 30% test
\* always gives way to the next kind of candidate.
AdjustedEndFallThrough(text, start, chunk_size) ==
  LET end        == start + chunk_size
      chunk      == Slice(text, start, end)
      code_block == rfind(chunk, FENCE)
      last_break == rfind(chunk, PARA)
      last_period == rfind(chunk, SENTENCE)
  IN  IF code_block # -1 /\ PastThreshold(code_block, chunk_size)
        THEN start + code_block
      ELSE IF last_break # -1 /\ PastThreshold(last_break, chunk_size)
        THEN start + last_break
      ELSE IF last_period # -1 /\ PastThreshold(last_period, chunk_size)
        THEN start + last_period + 1
      ELSE end

\* A variant of AdjustedEnd that prefers a paragraph break to a code fence.
AdjustedEndParaFirst(text, start, chunk_size) ==
  LET end        == start + chunk_size
      chunk      == Slice(text, start, end)
      code_block == rfind(chunk, FENCE)
      last_break == rfind(chunk, PARA)
      last_period == rfind(chunk, SENTENCE)
  IN  IF last_break # -1 /\ PastThreshold(last_break, chunk_size)
        THEN start + last_break
      ELSE IF code_block # -1 /\ PastThreshold(code_block, chunk_size)
        THEN start + code_block
      ELSE IF Contains(chunk, PARA)
        THEN end
      ELSE IF Contains(chunk, SENTENCE)
        THEN IF PastThreshold(last_period, chunk_size)
               THEN start + last_period + 1
               ELSE end
      ELSE end

\* A variant of AdjustedEnd that cuts one character short of the window and
\* looks for no delimiter.
AdjustedEndShort(text, start, chunk_size) == start + chunk_size - 1

\* Lines 48-59: the adjusted value of end for a non-final window.
AdjustedEnd(text, start, chunk_size) ==
  LET end        == start + chunk_size
      chunk      == Slice(text, start, end)
      code_block == rfind(chunk, FENCE)
      last_break == rfind(chunk, PARA)
      last_period == rfind(chunk, SENTENCE)
  IN  IF code_block # -1 /\ PastThreshold(code_block, chunk_size)
        THEN start + code_block
      ELSE IF Contains(chunk, PARA)
        THEN IF PastThreshold(last_break, chunk_size)
               THEN start + last_break
               ELSE end
      ELSE IF Contains(chunk, SENTENCE)
        THEN IF PastThreshold(last_period, chunk_size)
               THEN start + last_period + 1
               ELSE end
      ELSE end

\* A variant of NextStart that always steps past the cut.
NextStartSkip(start, end) == end + 1

\* A variant of NextStart that leaves the scan position where it is.
NextStartStay(start, end) == start

\* Line 64: the next scan position.
NextStart(start, end) == Max(start + 1, end)

\* A variant of IsFinalWindow that takes the remainder one character early.
IsFinalWindowEarly(text, start, chunk_size) == start + chunk_size + 1 >= Len(text)

\* Line 44: does the window starting at start reach the end of the text?
IsFinalWindow(text, start, chunk_size) == start + chunk_size >= Len(text)

\* A variant of AppendFinal that does not trim the final chunk.
AppendFinalRaw(chunks, piece) == Append(chunks, piece)

\* Lines 44-45: the final chunk is appended as it is.
AppendFinal(chunks, piece) == Append(chunks, strip(piece))

\* Lines 61-63: a non-final chunk is appended only when it is non-empty.
AppendCut(chunks, piece) ==
  IF strip(piece) # <<>> THEN Append(chunks, strip(piece)) ELSE chunks

\* The whole function, lines 36-66, as the loop computes it.
RECURSIVE ChunkLoop(_, _, _, _)
ChunkLoop(text, chunk_size, start, chunks) ==
  IF ~(start < Len(text)) THEN chunks
  ELSE IF IsFinalWindow(text, start, chunk_size)
    THEN AppendFinal(chunks, Slice(text, start, Len(text)))
  ELSE LET end == AdjustedEnd(text, start, chunk_size)
       IN  ChunkLoop(text, chunk_size, NextStart(start, end),
                     AppendCut(chunks, Slice(text, start, end)))

chunk_text(text, chunk_size) == ChunkLoop(text, chunk_size, 0, <<>>)

\* ------------------------------------------------- state of chunk_text run
\* One call of chunk_text, executed one loop iteration at a time.
VARIABLES
  text,        \* the argument text
  chunk_size,  \* the argument chunk_size
  start,       \* the local start
  chunks,      \* the local chunks
  windows,     \* history: the slices text[start:end] stripped at lines 45, 61
  cpc          \* "idle" (no call), "loop" (at line 42) or "done" (returned)

chunkVars == <<text, chunk_size, start, chunks, windows, cpc>>


\* --------------------------------------------------- bounds of a crawl run
\* Size of a crawl: the number of URLs plus the number of chunks their pages
\* hold is at most MaxLoad (main returns before crawl_parallel when the URL
\* list is empty, so there is at least one URL).
MaxLoad == 3
\* max_concurrent ranges over 1..MaxConcurrent.
MaxConcurrent == 2
\* Stand-in for the default chunk_size of chunk_text (5000), scaled to the
\* length of the pages below.
DocChunkSize == 5

\* Dimensionality of the zero vector get_embedding falls back to.
EmbeddingDim == 1536

\* Pages the crawler may deliver: an empty page (no chunk), a page of blanks,
\* a short page, and pages longer than one and than two windows.
Docs ==
  {<<>>, <<" ">>, <<"a", "a">>,
   <<"a", ".", " ", "a", "a", "a", "a">>,
   <<"a", ".", " ", "a", "a", "a", "a", "a", "a", "a", "a", "a", "a", "a">>}

\* What crawler.arun may deliver: result.success and the raw markdown.
FetchResults ==
  {[success |-> FALSE, markdown |-> <<>>]}
    \cup {[success |-> TRUE, markdown |-> d] : d \in Docs}

\* What the chat-completion call may do: return a JSON object with both
\* keys, raise, return text that is not JSON, or return a JSON object that
\* lacks one of the keys.
CompletionResults == {"ok", "error", "badjson", "notitle", "nosummary"}

\* What the embeddings call may do: return a vector or raise.
EmbeddingResults == {"ok", "error"}

\* What the store insert may do: return a result or raise.
InsertResults == {"ok", "error"}

\* ------------------------------------------------------ state of the crawl
VARIABLES
  site,           \* what crawler.arun delivers for each URL
  nurls,          \* len(urls); the URLs are 1..nurls in list order
  max_concurrent, \* the argument max_concurrent
  main_pc,        \* where crawl_parallel is
  main_exc,       \* TRUE when gather (line 180) raised into crawl_parallel
  session,        \* the crawler: "new", "open" or "closed"
  closes,         \* number of crawler.close() calls
  sem_value,      \* the semaphore's counter
  sem_waiters,    \* the semaphore's FIFO of waiting tasks
  ready,          \* the event loop's FIFO of runnable tasks
  upc,            \* where each process_url task is
  fetch_res,      \* the result delivered by crawler.arun, per URL
  fetches,        \* number of crawler.arun calls, per URL
  pipelines,      \* number of process_and_store_document calls, per URL
  doc_chunks,     \* the local chunks of process_and_store_document, per URL
  doc_exc,        \* TRUE when gather (line 148) raised into the pipeline
  epc,            \* where each process_chunk task is, per URL and chunk
  tresp,          \* the local response of get_title_and_summary
  extracted,      \* the local extracted of process_chunk
  eresp,          \* the local response of get_embedding
  processed,      \* the ProcessedChunk each process_chunk returned
  enrich_calls,   \* chunk_number of every process_chunk call, per URL
  insert_calls,   \* chunk_number of every insert_chunk call, per URL
  ipc,            \* where each insert_chunk task is, per URL and chunk
  ires,           \* what each insert_chunk returned
  rows,           \* the rows of table site_pages, in insertion order
  torn            \* TRUE once asyncio.run has cancelled the leftover tasks

crawlVars ==
  <<site, nurls, max_concurrent, main_pc, main_exc, session, closes, sem_value,
    sem_waiters, ready, upc, fetch_res, fetches, pipelines, doc_chunks,
    doc_exc, epc, tresp, extracted, eresp, processed, enrich_calls,
    insert_calls, ipc, ires, rows, torn>>

vars == <<chunkVars, crawlVars>>

Urls == 1..nurls

MainTask == [k |-> "main", u |-> 0, i |-> 0]

UrlTask(u) == [k |-> "url", u |-> u, i |-> 0]

ChunkTask(u, i) == [k |-> "chunk", u |-> u, i |-> i]

InsertTask(u, i) == [k |-> "insert", u |-> u, i |-> i]

\* The task the event loop runs next.
Running(t) == ready # <<>> /\ Head(ready) = t

\* The pcs of a process_url task that is inside "async with semaphore".
GatedPcs == {"fetch", "fetched", "enrich", "enriched", "insert", "inserted"}

InGate == {u \in Urls : upc[u] \in GatedPcs}

\* The event loop polls for I/O only after every task made runnable by
\* gather (line 180) has run its first step.
AllLaunched == main_pc # "start" /\ main_pc # "started" /\ \A u \in Urls : upc[u] # "new"

\* <<f[1], ..., f[n]>> for an operator f.
TasksOf(n, Mk(_)) == [j \in 1..n |-> Mk(j)]

\* Number of chunks the pages of URLs 1..n hold.
RECURSIVE SiteChunks(_, _)
SiteChunks(pages, n) ==
  IF n = 0 THEN 0
  ELSE Len(chunk_text(pages[n].markdown, DocChunkSize)) + SiteChunks(pages, n - 1)

\* State before crawl_parallel is called.
CrawlIdle ==
  /\ site = [u \in 1..1 |-> [success |-> FALSE, markdown |-> <<>>]]
  /\ nurls = 1
  /\ max_concurrent = 1
  /\ main_pc = "idle"
  /\ main_exc = FALSE
  /\ session = "new"
  /\ closes = 0
  /\ sem_value = 0
  /\ sem_waiters = <<>>
  /\ ready = <<>>
  /\ upc = [u \in 1..1 |-> "none"]
  /\ fetch_res = [u \in 1..1 |-> [success |-> FALSE, markdown |-> <<>>]]
  /\ fetches = [u \in 1..1 |-> 0]
  /\ pipelines = [u \in 1..1 |-> 0]
  /\ doc_chunks = [u \in 1..1 |-> <<>>]
  /\ doc_exc = [u \in 1..1 |-> FALSE]
  /\ epc = [u \in 1..1 |-> <<>>]
  /\ tresp = [u \in 1..1 |-> <<>>]
  /\ extracted = [u \in 1..1 |-> <<>>]
  /\ eresp = [u \in 1..1 |-> <<>>]
  /\ processed = [u \in 1..1 |-> <<>>]
  /\ enrich_calls = [u \in 1..1 |-> <<>>]
  /\ insert_calls = [u \in 1..1 |-> <<>>]
  /\ ipc = [u \in 1..1 |-> <<>>]
  /\ ires = [u \in 1..1 |-> <<>>]
  /\ rows = <<>>
  /\ torn = FALSE

\* Lines 152-162: nothing has run yet; no task, no fetch, no row.
CrawlFresh ==
  /\ main_pc = "start"
  /\ main_exc = FALSE
  /\ session = "new"
  /\ closes = 0
  /\ sem_value = 0
  /\ sem_waiters = <<>>
  /\ ready = <<>>
  /\ upc = [u \in Urls |-> "none"]
  /\ fetch_res = [u \in Urls |-> [success |-> FALSE, markdown |-> <<>>]]
  /\ fetches = [u \in Urls |-> 0]
  /\ pipelines = [u \in Urls |-> 0]
  /\ doc_chunks = [u \in Urls |-> <<>>]
  /\ doc_exc = [u \in Urls |-> FALSE]
  /\ epc = [u \in Urls |-> <<>>]
  /\ tresp = [u \in Urls |-> <<>>]
  /\ extracted = [u \in Urls |-> <<>>]
  /\ eresp = [u \in Urls |-> <<>>]
  /\ processed = [u \in Urls |-> <<>>]
  /\ enrich_calls = [u \in Urls |-> <<>>]
  /\ insert_calls = [u \in Urls |-> <<>>]
  /\ ipc = [u \in Urls |-> <<>>]
  /\ ires = [u \in Urls |-> <<>>]
  /\ rows = <<>>
  /\ torn = FALSE

\* Lines 152-162: crawl_parallel(urls, max_concurrent) has built its
\* configuration and awaits crawler.start().
CrawlInit ==
  /\ nurls \in 1..MaxLoad
  /\ site \in [1..nurls -> FetchResults]
  /\ nurls + SiteChunks(site, nurls) <= MaxLoad
  /\ max_concurrent \in 1..MaxConcurrent
  /\ CrawlFresh

\* crawl_parallel called on two URLs whose pages hold two chunks in all.
CrawlInitTwoPages ==
  /\ nurls = 2
  /\ site \in [1..2 -> FetchResults]
  /\ SiteChunks(site, 2) = 2
  /\ max_concurrent \in 1..MaxConcurrent
  /\ CrawlFresh

\* ------------------------------------------------------------ the semaphore
\* A variant of CanAcquire that also admits a task when no permit is left.
CanAcquireAlways(value) == value >= 0

\* Line 168: Semaphore.acquire returns at once when the counter is positive.
CanAcquire(value) == value > 0

\* Semaphore.release wakes the longest-waiting task, if any.
Woken == IF sem_waiters = <<>> THEN <<>> ELSE <<UrlTask(Head(sem_waiters))>>

WaitersAfterRelease == IF sem_waiters = <<>> THEN <<>> ELSE Tail(sem_waiters)

WithWoken(pcs) ==
  IF sem_waiters = <<>> THEN pcs ELSE [pcs EXCEPT ![Head(sem_waiters)] = "admitted"]

\* ------------------------------------------------------------------ gather
\* A variant of AllReturned that is content with the first child to return.
AllReturnedAny(pcs) == \E i \in 1..Len(pcs) : pcs[i] = "done"

\* asyncio.gather (lines 148, 150) delivers its result list once every child
\* has returned.
AllReturned(pcs) == \A i \in 1..Len(pcs) : pcs[i] = "done"

\* asyncio.gather (line 180) wakes crawl_parallel when every process_url
\* task has returned, or as soon as one of them raises.
GatherWakes(pcs, raised) ==
  main_pc = "gather" /\ (raised \/ \A u \in Urls : pcs[u] = "done")

\* A variant of ShouldProcess that ignores the outcome of the fetch.
ShouldProcessAlways(result) == TRUE

\* Line 174: the test on the fetch result.
ShouldProcess(result) == result.success

\* ----------------------------------------------------------- crawl_parallel
\* crawler.start() (line 162) completes.
CrawlerStarted ==
  /\ main_pc = "start"
  /\ main_pc' = "started"
  /\ session' = "open"
  /\ ready' = Append(ready, MainTask)
  /\ UNCHANGED <<chunkVars, site, nurls, max_concurrent, main_exc, closes, sem_value,
                 sem_waiters, upc, fetch_res, fetches, pipelines, doc_chunks,
                 doc_exc, epc, tresp, extracted, eresp, processed,
                 enrich_calls, insert_calls, ipc, ires, rows, torn>>

\* Lines 165-180: create the semaphore, create one task per URL in list
\* order, await gather.
MainLaunch ==
  /\ Running(MainTask)
  /\ main_pc = "started"
  /\ sem_value' = max_concurrent
  /\ upc' = [u \in Urls |-> "new"]
  /\ ready' = Tail(ready) \o TasksOf(nurls, UrlTask)
  /\ main_pc' = "gather"
  /\ UNCHANGED <<chunkVars, site, nurls, max_concurrent, main_exc, session, closes,
                 sem_waiters, fetch_res, fetches, pipelines, doc_chunks,
                 doc_exc, epc, tresp, extracted, eresp, processed,
                 enrich_calls, insert_calls, ipc, ires, rows, torn>>

\* Lines 181-182: gather has returned or raised; call crawler.close().
MainFinally ==
  /\ Running(MainTask)
  /\ main_pc = "gather_done"
  /\ main_pc' = "closing"
  /\ closes' = closes + 1
  /\ ready' = Tail(ready)
  /\ UNCHANGED <<chunkVars, site, nurls, max_concurrent, main_exc, session, sem_value,
                 sem_waiters, upc, fetch_res, fetches, pipelines, doc_chunks,
                 doc_exc, epc, tresp, extracted, eresp, processed,
                 enrich_calls, insert_calls, ipc, ires, rows, torn>>

\* crawler.close() (line 182) completes.
CrawlerClosed ==
  /\ main_pc = "closing"
  /\ main_pc' = "close_done"
  /\ session' = "closed"
  /\ ready' = Append(ready, MainTask)
  /\ UNCHANGED <<chunkVars, site, nurls, max_concurrent, main_exc, closes, sem_value,
                 sem_waiters, upc, fetch_res, fetches, pipelines, doc_chunks,
                 doc_exc, epc, tresp, extracted, eresp, processed,
                 enrich_calls, insert_calls, ipc, ires, rows, torn>>

\* Line 182 onwards: crawl_parallel returns, or re-raises what gather raised.
MainReturn ==
  /\ Running(MainTask)
  /\ main_pc = "close_done"
  /\ main_pc' = "done"
  /\ ready' = Tail(ready)
  /\ UNCHANGED <<chunkVars, site, nurls, max_concurrent, main_exc, session, closes, sem_value,
                 sem_waiters, upc, fetch_res, fetches, pipelines, doc_chunks,
                 doc_exc, epc, tresp, extracted, eresp, processed,
                 enrich_calls, insert_calls, ipc, ires, rows, torn>>

\* Line 219: once main has finished, asyncio.run cancels every task that is
\* left; a cancelled process_url leaves "async with semaphore" and releases.
Unfinished(pc) == IF pc \in {"done", "raised", "none"} THEN pc ELSE "cancelled"

Teardown ==
  /\ main_pc = "done"
  /\ ~torn
  /\ torn' = TRUE
  /\ upc' = [u \in Urls |-> Unfinished(upc[u])]
  /\ epc' = [u \in Urls |-> [i \in 1..Len(epc[u]) |-> Unfinished(epc[u][i])]]
  /\ ipc' = [u \in Urls |-> [i \in 1..Len(ipc[u]) |-> Unfinished(ipc[u][i])]]
  /\ sem_value' = sem_value + Cardinality(InGate)
  /\ sem_waiters' = <<>>
  /\ ready' = <<>>
  /\ UNCHANGED <<chunkVars, site, nurls, max_concurrent, main_pc, main_exc, session, closes,
                 fetch_res, fetches, pipelines, doc_chunks, doc_exc, tresp,
                 extracted, eresp, processed, enrich_calls, insert_calls,
                 ires, rows>>

\* -------------------------------------------------------------- process_url
\* Line 168, counter positive: enter the gated section and call crawler.arun
\* (line 169).
UrlAcquireNow(u) ==
  /\ Running(UrlTask(u))
  /\ upc[u] = "new"
  /\ CanAcquire(sem_value)
  /\ sem_value' = sem_value - 1
  /\ upc' = [upc EXCEPT ![u] = "fetch"]
  /\ fetches' = [fetches EXCEPT ![u] = @ + 1]
  /\ ready' = Tail(ready)
  /\ UNCHANGED <<chunkVars, site, nurls, max_concurrent, main_pc, main_exc, session, closes,
                 sem_waiters, fetch_res, pipelines, doc_chunks, doc_exc, epc,
                 tresp, extracted, eresp, processed, enrich_calls,
                 insert_calls, ipc, ires, rows, torn>>

\* Line 168, counter zero: queue on the semaphore.
UrlAcquireWait(u) ==
  /\ Running(UrlTask(u))
  /\ upc[u] = "new"
  /\ ~CanAcquire(sem_value)
  /\ sem_waiters' = Append(sem_waiters, u)
  /\ upc' = [upc EXCEPT ![u] = "acquire"]
  /\ ready' = Tail(ready)
  /\ UNCHANGED <<chunkVars, site, nurls, max_concurrent, main_pc, main_exc, session, closes,
                 sem_value, fetch_res, fetches, pipelines, doc_chunks,
                 doc_exc, epc, tresp, extracted, eresp, processed,
                 enrich_calls, insert_calls, ipc, ires, rows, torn>>

\* Line 168, woken by a release: take the permit and call crawler.arun.
UrlAdmitted(u) ==
  /\ Running(UrlTask(u))
  /\ upc[u] = "admitted"
  /\ sem_value' = sem_value - 1
  /\ upc' = [upc EXCEPT ![u] = "fetch"]
  /\ fetches' = [fetches EXCEPT ![u] = @ + 1]
  /\ ready' = Tail(ready)
  /\ UNCHANGED <<chunkVars, site, nurls, max_concurrent, main_pc, main_exc, session, closes,
                 sem_waiters, fetch_res, pipelines, doc_chunks, doc_exc, epc,
                 tresp, extracted, eresp, processed, enrich_calls,
                 insert_calls, ipc, ires, rows, torn>>

\* crawler.arun (line 169) completes with the result the site gives.
FetchComplete(u) ==
  /\ AllLaunched
  /\ upc[u] = "fetch"
  /\ fetch_res' = [fetch_res EXCEPT ![u] = site[u]]
  /\ upc' = [upc EXCEPT ![u] = "fetched"]
  /\ ready' = Append(ready, UrlTask(u))
  /\ UNCHANGED <<chunkVars, site, nurls, max_concurrent, main_pc, main_exc, session, closes,
                 sem_value, sem_waiters, fetches, pipelines, doc_chunks,
                 doc_exc, epc, tresp, extracted, eresp, processed,
                 enrich_calls, insert_calls, ipc, ires, rows, torn>>

\* A variant of UrlExit in which a task that ends by an exception keeps its
\* permit.
UrlExitKeepOnRaise(u, how) ==
  LET kept  == how = "raised"
      pcs   == IF kept THEN [upc EXCEPT ![u] = how] ELSE WithWoken([upc EXCEPT ![u] = how])
      wakes == GatherWakes(pcs, how = "raised")
  IN  /\ upc' = pcs
      /\ sem_value' = IF kept THEN sem_value ELSE sem_value + 1
      /\ sem_waiters' = IF kept THEN sem_waiters ELSE WaitersAfterRelease
      /\ main_pc' = IF wakes THEN "gather_done" ELSE main_pc
      /\ main_exc' = IF wakes THEN (how = "raised") ELSE main_exc
      /\ ready' = Tail(ready) \o (IF kept THEN <<>> ELSE Woken)
                              \o (IF wakes THEN <<MainTask>> ELSE <<>>)

\* The process_url task of u ends (returning when how = "done", raising when
\* how = "raised"): "async with" releases the semaphore (line 168) and
\* gather (line 180) is told.
UrlExit(u, how) ==
  LET pcs   == WithWoken([upc EXCEPT ![u] = how])
      wakes == GatherWakes(pcs, how = "raised")
  IN  /\ upc' = pcs
      /\ sem_value' = sem_value + 1
      /\ sem_waiters' = WaitersAfterRelease
      /\ main_pc' = IF wakes THEN "gather_done" ELSE main_pc
      /\ main_exc' = IF wakes THEN (how = "raised") ELSE main_exc
      /\ ready' = Tail(ready) \o Woken \o (IF wakes THEN <<MainTask>> ELSE <<>>)

\* Lines 174, 177-178: the fetch failed; report and leave.
UrlFetchFailed(u) ==
  /\ Running(UrlTask(u))
  /\ upc[u] = "fetched"
  /\ ~ShouldProcess(fetch_res[u])
  /\ UrlExit(u, "done")
  /\ UNCHANGED <<chunkVars, site, nurls, max_concurrent, session, closes, fetch_res, fetches,
                 pipelines, doc_chunks, doc_exc, epc, tresp, extracted, eresp,
                 processed, enrich_calls, insert_calls, ipc, ires, rows, torn>>

\* ----------------------------------------------- process_and_store_document
\* Value of a slot of processed_chunks that gather has not filled yet.
NoChunk ==
  [url |-> 0, chunk_number |-> -1, title |-> "", summary |-> "",
   content |-> <<>>, embedding |-> [dim |-> 0, zero |-> TRUE]]

\* Line 147: enumerate(chunks) numbers the chunks 0, 1, ... in text order.
ChunkNumber(i) == i - 1

\* Lines 174-176 and 146-150 for a page without chunks: both gathers have
\* nothing to wait for, so the pipeline returns without suspending.
UrlFetchedEmpty(u) ==
  /\ Running(UrlTask(u))
  /\ upc[u] = "fetched"
  /\ ShouldProcess(fetch_res[u])
  /\ chunk_text(fetch_res[u].markdown, DocChunkSize) = <<>>
  /\ pipelines' = [pipelines EXCEPT ![u] = @ + 1]
  /\ UrlExit(u, "done")
  /\ UNCHANGED <<chunkVars, site, nurls, max_concurrent, session, closes, fetch_res, fetches,
                 doc_chunks, doc_exc, epc, tresp, extracted, eresp,
                 processed, enrich_calls, insert_calls, ipc, ires, rows, torn>>

\* Lines 174-176 and 146-148: chunk the page, create one process_chunk task
\* per chunk, await gather.
UrlFetchedDoc(u) ==
  /\ Running(UrlTask(u))
  /\ upc[u] = "fetched"
  /\ ShouldProcess(fetch_res[u])
  /\ LET cs == chunk_text(fetch_res[u].markdown, DocChunkSize)
         n  == Len(cs)
     IN  /\ n > 0
         /\ pipelines' = [pipelines EXCEPT ![u] = @ + 1]
         /\ doc_chunks' = [doc_chunks EXCEPT ![u] = cs]
         /\ enrich_calls' = [enrich_calls EXCEPT ![u] = [i \in 1..n |-> ChunkNumber(i)]]
         /\ epc' = [epc EXCEPT ![u] = [i \in 1..n |-> "new"]]
         /\ tresp' = [tresp EXCEPT ![u] = [i \in 1..n |-> "none"]]
         /\ eresp' = [eresp EXCEPT ![u] = [i \in 1..n |-> "none"]]
         /\ extracted' = [extracted EXCEPT ![u] = [i \in 1..n |-> <<>>]]
         /\ processed' = [processed EXCEPT ![u] = [i \in 1..n |-> NoChunk]]
         /\ ready' = Tail(ready) \o [i \in 1..n |-> ChunkTask(u, i)]
  /\ upc' = [upc EXCEPT ![u] = "enrich"]
  /\ doc_exc' = [doc_exc EXCEPT ![u] = FALSE]
  /\ UNCHANGED <<chunkVars, site, nurls, max_concurrent, main_pc, main_exc, session, closes,
                 sem_value, sem_waiters, fetch_res, fetches, insert_calls,
                 ipc, ires, rows, torn>>

\* ------------------------------------------------------------ process_chunk
\* Lines 76-88: the dict get_title_and_summary returns, as the set of its
\* keys with their values.
Sentinel == [title |-> "Error processing title", summary |-> "Error processing summary"]

get_title_and_summary(resp) ==
  CASE resp = "ok"        -> [title |-> "T", summary |-> "S"]
    [] resp = "notitle"   -> [summary |-> "S"]
    [] resp = "nosummary" -> [title |-> "T"]
    [] OTHER              -> Sentinel

\* A variant of get_embedding whose fallback is the empty vector.
get_embeddingEmpty(resp) ==
  IF resp = "ok" THEN [dim |-> EmbeddingDim, zero |-> FALSE]
  ELSE [dim |-> 0, zero |-> TRUE]

\* Lines 92-100: the vector get_embedding returns.
get_embedding(resp) ==
  IF resp = "ok" THEN [dim |-> EmbeddingDim, zero |-> FALSE]
  ELSE [dim |-> EmbeddingDim, zero |-> TRUE]

\* Lines 117-118: extracted['title'] and extracted['summary'] raise KeyError
\* unless both keys are present.
HasKeys(d) == {"title", "summary"} \subseteq DOMAIN d

\* Lines 102-104: process_chunk starts and awaits the completion call.
ChunkStart(u, i) ==
  /\ Running(ChunkTask(u, i))
  /\ epc[u][i] = "new"
  /\ epc' = [epc EXCEPT ![u][i] = "title"]
  /\ ready' = Tail(ready)
  /\ UNCHANGED <<chunkVars, site, nurls, max_concurrent, main_pc, main_exc, session, closes,
                 sem_value, sem_waiters, upc, fetch_res, fetches, pipelines,
                 doc_chunks, doc_exc, tresp, extracted, eresp, processed,
                 enrich_calls, insert_calls, ipc, ires, rows, torn>>

\* The completion call (line 77) completes in some way.
TitleComplete(u, i, resp) ==
  /\ AllLaunched
  /\ epc[u][i] = "title"
  /\ tresp' = [tresp EXCEPT ![u][i] = resp]
  /\ epc' = [epc EXCEPT ![u][i] = "title_done"]
  /\ ready' = Append(ready, ChunkTask(u, i))
  /\ UNCHANGED <<chunkVars, site, nurls, max_concurrent, main_pc, main_exc, session, closes,
                 sem_value, sem_waiters, upc, fetch_res, fetches, pipelines,
                 doc_chunks, doc_exc, extracted, eresp, processed,
                 enrich_calls, insert_calls, ipc, ires, rows, torn>>

\* Lines 85-88 and 104-105: get_title_and_summary returns; await the
\* embeddings call.
ChunkAfterTitle(u, i) ==
  /\ Running(ChunkTask(u, i))
  /\ epc[u][i] = "title_done"
  /\ extracted' = [extracted EXCEPT ![u][i] = get_title_and_summary(tresp[u][i])]
  /\ tresp' = [tresp EXCEPT ![u][i] = "none"]
  /\ epc' = [epc EXCEPT ![u][i] = "embed"]
  /\ ready' = Tail(ready)
  /\ UNCHANGED <<chunkVars, site, nurls, max_concurrent, main_pc, main_exc, session, closes,
                 sem_value, sem_waiters, upc, fetch_res, fetches, pipelines,
                 doc_chunks, doc_exc, eresp, processed, enrich_calls,
                 insert_calls, ipc, ires, rows, torn>>

\* The embeddings call (line 93) completes in some way.
EmbedComplete(u, i, resp) ==
  /\ AllLaunched
  /\ epc[u][i] = "embed"
  /\ eresp' = [eresp EXCEPT ![u][i] = resp]
  /\ epc' = [epc EXCEPT ![u][i] = "embed_done"]
  /\ ready' = Append(ready, ChunkTask(u, i))
  /\ UNCHANGED <<chunkVars, site, nurls, max_concurrent, main_pc, main_exc, session, closes,
                 sem_value, sem_waiters, upc, fetch_res, fetches, pipelines,
                 doc_chunks, doc_exc, tresp, extracted, processed,
                 enrich_calls, insert_calls, ipc, ires, rows, torn>>

\* A process_chunk task of u ends; gather (line 148) wakes the pipeline when
\* it is still waiting and either this child raised or all have returned.
ChunkExit(u, i, how) ==
  LET pcs   == [epc[u] EXCEPT ![i] = how]
      wakes == upc[u] = "enrich" /\ (how = "raised" \/ AllReturned(pcs))
  IN  /\ epc' = [epc EXCEPT ![u] = pcs]
      /\ upc' = IF wakes THEN [upc EXCEPT ![u] = "enriched"] ELSE upc
      /\ doc_exc' = IF wakes THEN [doc_exc EXCEPT ![u] = (how = "raised")] ELSE doc_exc
      /\ ready' = Tail(ready) \o (IF wakes THEN <<UrlTask(u)>> ELSE <<>>)

\* Lines 105-122: get_embedding returns and the ProcessedChunk is built.
ChunkFinishOk(u, i) ==
  /\ Running(ChunkTask(u, i))
  /\ epc[u][i] = "embed_done"
  /\ HasKeys(extracted[u][i])
  /\ processed' = [processed EXCEPT ![u][i] =
                     [url |-> u, chunk_number |-> enrich_calls[u][i],
                      title |-> extracted[u][i].title,
                      summary |-> extracted[u][i].summary,
                      content |-> doc_chunks[u][i],
                      embedding |-> get_embedding(eresp[u][i])]]
  /\ ChunkExit(u, i, "done")
  /\ extracted' = [extracted EXCEPT ![u][i] = <<>>]
  /\ eresp' = [eresp EXCEPT ![u][i] = "none"]
  /\ UNCHANGED <<chunkVars, site, nurls, max_concurrent, main_pc, main_exc, session, closes,
                 sem_value, sem_waiters, fetch_res, fetches, pipelines,
                 doc_chunks, tresp, enrich_calls,
                 insert_calls, ipc, ires, rows, torn>>

\* Lines 105-118: get_embedding returns and building the ProcessedChunk
\* raises KeyError out of process_chunk.
ChunkFinishRaise(u, i) ==
  /\ Running(ChunkTask(u, i))
  /\ epc[u][i] = "embed_done"
  /\ ~HasKeys(extracted[u][i])
  /\ ChunkExit(u, i, "raised")
  /\ extracted' = [extracted EXCEPT ![u][i] = <<>>]
  /\ eresp' = [eresp EXCEPT ![u][i] = "none"]
  /\ UNCHANGED <<chunkVars, site, nurls, max_concurrent, main_pc, main_exc, session, closes,
                 sem_value, sem_waiters, fetch_res, fetches, pipelines,
                 doc_chunks, tresp, processed,
                 enrich_calls, insert_calls, ipc, ires, rows, torn>>

\* ------------------------------------------ the pipeline's second phase
\* A variant of InsertTasks in which the tasks are created last chunk first.
InsertTasksReversed(u, n) == [i \in 1..n |-> InsertTask(u, n + 1 - i)]

\* Lines 149-150: gather creates one task per insert_chunk coroutine, in
\* the order of processed_chunks.
InsertTasks(u, n) == [i \in 1..n |-> InsertTask(u, i)]

\* Lines 148-150: gather returned processed_chunks; create one insert_chunk
\* task per element, await gather.
UrlEnrichedOk(u) ==
  /\ Running(UrlTask(u))
  /\ upc[u] = "enriched"
  /\ ~doc_exc[u]
  /\ LET n == Len(processed[u])
     IN  /\ insert_calls' = [insert_calls EXCEPT ![u] =
                               [i \in 1..n |-> processed[u][i].chunk_number]]
         /\ ipc' = [ipc EXCEPT ![u] = [i \in 1..n |-> "new"]]
         /\ ires' = [ires EXCEPT ![u] = [i \in 1..n |-> "none"]]
         /\ ready' = Tail(ready) \o InsertTasks(u, n)
  /\ upc' = [upc EXCEPT ![u] = "insert"]
  /\ UNCHANGED <<chunkVars, site, nurls, max_concurrent, main_pc, main_exc, session, closes,
                 sem_value, sem_waiters, fetch_res, fetches, pipelines,
                 doc_chunks, doc_exc, epc, tresp, extracted, eresp,
                 processed, enrich_calls, rows, torn>>

\* Line 148 raising: the exception leaves the pipeline (line 176) and
\* process_url.
UrlEnrichedRaise(u) ==
  /\ Running(UrlTask(u))
  /\ upc[u] = "enriched"
  /\ doc_exc[u]
  /\ UrlExit(u, "raised")
  /\ UNCHANGED <<chunkVars, site, nurls, max_concurrent, session, closes, fetch_res, fetches,
                 pipelines, doc_chunks, doc_exc, epc, tresp, extracted, eresp,
                 processed, enrich_calls, insert_calls, ipc, ires, rows, torn>>

\* A variant of RowsAfterInsert in which a failed insert takes the rows of
\* its document out of the table again.
RowsAfterInsertRollback(table, resp, chunk) ==
  IF resp = "ok" THEN Append(table, chunk)
  ELSE SelectSeq(table, LAMBDA r : r.url # chunk.url)

\* Lines 127-138: the table after the store call; a call that raises adds
\* nothing and removes nothing.
RowsAfterInsert(table, resp, chunk) ==
  IF resp = "ok" THEN Append(table, chunk) ELSE table

\* Lines 138-142: what insert_chunk returns, the store's result or None.
insert_chunk(resp) == IF resp = "ok" THEN "result" ELSE "None"

\* Lines 124-142: insert_chunk has no suspension point; the store call
\* either returns (a row is added) or raises (None is returned).
InsertRun(u, i, resp) ==
  /\ Running(InsertTask(u, i))
  /\ ipc[u][i] = "new"
  /\ rows' = RowsAfterInsert(rows, resp, processed[u][i])
  /\ ires' = [ires EXCEPT ![u][i] = insert_chunk(resp)]
  /\ LET pcs   == [ipc[u] EXCEPT ![i] = "done"]
         wakes == upc[u] = "insert" /\ AllReturned(pcs)
     IN  /\ ipc' = [ipc EXCEPT ![u] = pcs]
         /\ upc' = IF wakes THEN [upc EXCEPT ![u] = "inserted"] ELSE upc
         /\ ready' = Tail(ready) \o (IF wakes THEN <<UrlTask(u)>> ELSE <<>>)
  /\ UNCHANGED <<chunkVars, site, nurls, max_concurrent, main_pc, main_exc, session, closes,
                 sem_value, sem_waiters, fetch_res, fetches, pipelines,
                 doc_chunks, doc_exc, epc, tresp, extracted, eresp,
                 processed, enrich_calls, insert_calls, torn>>

\* Line 150 returning: the pipeline and process_url return.
UrlInserted(u) ==
  /\ Running(UrlTask(u))
  /\ upc[u] = "inserted"
  /\ UrlExit(u, "done")
  /\ UNCHANGED <<chunkVars, site, nurls, max_concurrent, session, closes, fetch_res, fetches,
                 pipelines, doc_chunks, doc_exc, epc, tresp, extracted, eresp,
                 processed, enrich_calls, insert_calls, ipc, ires, rows, torn>>

\* ------------------------------------------------ one call of chunk_text
ChunkIdle ==
  /\ text = <<>>
  /\ chunk_size = 1
  /\ start = 0
  /\ chunks = <<>>
  /\ windows = <<>>
  /\ cpc = "idle"

\* Lines 38-40: entry of chunk_text(text, chunk_size).
ChunkInit ==
  /\ text \in TextsUpTo(MaxTokens)
  /\ chunk_size \in 1..MaxChunkSize
  /\ start = 0
  /\ chunks = <<>>
  /\ windows = <<>>
  /\ cpc = "loop"

\* Lines 42-46: the window reaches the end of the text; append and break.
ChunkFinal ==
  /\ cpc = "loop"
  /\ start < Len(text)
  /\ IsFinalWindow(text, start, chunk_size)
  /\ chunks' = AppendFinal(chunks, Slice(text, start, Len(text)))
  /\ windows' = Append(windows, [start |-> start, end |-> Len(text), final |-> TRUE])
  /\ cpc' = "done"
  /\ UNCHANGED <<crawlVars, text, chunk_size, start>>

\* Lines 42-64: a non-final window; adjust the cut, append, advance.
ChunkCut ==
  /\ cpc = "loop"
  /\ start < Len(text)
  /\ ~IsFinalWindow(text, start, chunk_size)
  /\ LET end == AdjustedEnd(text, start, chunk_size)
     IN  /\ chunks' = AppendCut(chunks, Slice(text, start, end))
         /\ windows' = Append(windows, [start |-> start, end |-> end, final |-> FALSE])
         /\ start' = NextStart(start, end)
  /\ UNCHANGED <<crawlVars, text, chunk_size, cpc>>

\* Lines 42, 66: the loop condition fails; return chunks.
ChunkReturn ==
  /\ cpc = "loop"
  /\ ~(start < Len(text))
  /\ cpc' = "done"
  /\ UNCHANGED <<crawlVars, text, chunk_size, start, chunks, windows>>

ChunkNext == ChunkFinal \/ ChunkCut \/ ChunkReturn

\* ------------------------------------------------------------ specifications
Init == CrawlInit /\ ChunkIdle

Next ==
  \/ CrawlerStarted
  \/ MainLaunch
  \/ MainFinally
  \/ CrawlerClosed
  \/ MainReturn
  \/ Teardown
  \/ \E u \in Urls : UrlAcquireNow(u)
  \/ \E u \in Urls : UrlAcquireWait(u)
  \/ \E u \in Urls : UrlAdmitted(u)
  \/ \E u \in Urls : FetchComplete(u)
  \/ \E u \in Urls : UrlFetchFailed(u)
  \/ \E u \in Urls : UrlFetchedEmpty(u)
  \/ \E u \in Urls : UrlFetchedDoc(u)
  \/ \E u \in Urls : \E i \in 1..Len(epc[u]) : ChunkStart(u, i)
  \/ \E u \in Urls : \E i \in 1..Len(epc[u]) : \E resp \in CompletionResults : TitleComplete(u, i, resp)
  \/ \E u \in Urls : \E i \in 1..Len(epc[u]) : ChunkAfterTitle(u, i)
  \/ \E u \in Urls : \E i \in 1..Len(epc[u]) : \E resp \in EmbeddingResults : EmbedComplete(u, i, resp)
  \/ \E u \in Urls : \E i \in 1..Len(epc[u]) : ChunkFinishOk(u, i)
  \/ \E u \in Urls : \E i \in 1..Len(epc[u]) : ChunkFinishRaise(u, i)
  \/ \E u \in Urls : UrlEnrichedOk(u)
  \/ \E u \in Urls : UrlEnrichedRaise(u)
  \/ \E u \in Urls : \E i \in 1..Len(ipc[u]) : \E resp \in InsertResults : InsertRun(u, i, resp)
  \/ \E u \in Urls : UrlInserted(u)

Spec == Init /\ [][Next]_vars

\* A crawl of two URLs with two chunks between them.
InitTwoPages == CrawlInitTwoPages /\ ChunkIdle

TwoPageSpec == InitTwoPages /\ [][Next]_vars

\* One call of chunk_text with nothing else going on.
InitChunk == ChunkInit /\ CrawlIdle

ChunkSpec == InitChunk /\ [][ChunkNext]_vars

\* ================================================================== claims
\* --------------------------------------------------------------- crawl run
\* The process_url tasks that have finished, one way or another.
Finished(u) == upc[u] \in {"done", "raised", "cancelled"}

\* Number of chunks the Chunker yields for the page of URL u.
PageChunks(u) == Len(chunk_text(site[u].markdown, DocChunkSize))

\* C1: at most max_concurrent process_url tasks are between acquiring and
\* releasing the gate, so at most max_concurrent fetches are in flight and at
\* most max_concurrent document pipelines are executing.
C1_GateBound == Cardinality(InGate) <= max_concurrent

\* C1 witness: the gate is full, a further URL is held back at it, and a
\* document pipeline is executing inside it.
C1_Witness ==
  /\ Cardinality(InGate) = max_concurrent
  /\ sem_waiters # <<>>
  /\ \E u \in Urls : upc[u] = "enrich"

\* C2: process_chunk never raises to its caller, whatever the completion
\* call delivers.
C2_EnricherNeverRaises ==
  \A u \in Urls : \A i \in 1..Len(epc[u]) : epc[u][i] # "raised"

\* C3: once process_and_store_document is over for a page of N chunks, the
\* Enricher and the Store Writer have each been called exactly N times, with
\* chunk_number 0..N-1 in order.
C3_CallsPerChunk ==
  \A u \in Urls :
    (pipelines[u] = 1 /\ upc[u] \in {"done", "raised"}) =>
      /\ enrich_calls[u] = [i \in 1..PageChunks(u) |-> i - 1]
      /\ insert_calls[u] = [i \in 1..PageChunks(u) |-> i - 1]

\* C6: the session is closed once, and only when every process_url task has
\* finished; no fetch starts after the close.
C6_CloseAfterTasks ==
  /\ closes <= 1
  /\ session = "closed" => \A u \in Urls : Finished(u)

\* C7: a failed fetch is not retried and never reaches the document
\* pipeline, the task of a URL whose fetch failed returns normally, the
\* pipeline is invoked exactly once per successfully fetched URL, and a run
\* that ends without error has fetched every URL exactly once.
C7_FailedFetchSkipped ==
  /\ \A u \in Urls :
       /\ fetches[u] <= 1
       /\ pipelines[u] <= 1
       /\ pipelines[u] = 1 => (fetches[u] = 1 /\ fetch_res[u].success)
       /\ upc[u] \in (GatedPcs \ {"fetch", "fetched"}) \cup {"done", "raised"} =>
            (pipelines[u] = 1 <=> site[u].success)
       /\ upc[u] = "raised" => site[u].success
       /\ (upc[u] = "done" /\ ~site[u].success) => (fetches[u] = 1 /\ pipelines[u] = 0)
  /\ (main_pc = "done" /\ ~main_exc) =>
       \A u \in Urls : upc[u] = "done" /\ fetches[u] = 1

\* C7 witness: the example of the specification; two URLs, one permit, one
\* fetch fails, the other page is processed and stored, the run ends without
\* error.
C7_Witness ==
  /\ nurls = 2
  /\ max_concurrent = 1
  /\ main_pc = "done"
  /\ ~main_exc
  /\ \E u, v \in Urls :
       /\ ~site[u].success
       /\ pipelines[u] = 0
       /\ site[v].success
       /\ pipelines[v] = 1
       /\ \E k \in 1..Len(rows) : rows[k].url = v

\* C8: no insert_chunk of a document starts before every process_chunk of
\* that document has returned.
C8_EnrichBeforeStore ==
  \A u \in Urls :
    (insert_calls[u] # <<>> \/ ipc[u] # <<>> \/ \E k \in 1..Len(rows) : rows[k].url = u) =>
      \A i \in 1..Len(epc[u]) : epc[u][i] = "done"

\* C8 witness: a page of two chunks in the middle of its store phase.
C8_Witness ==
  \E u \in Urls :
    /\ Len(epc[u]) = 2
    /\ ipc[u] = <<"done", "new">>

\* ------------------------------------------------------ a chunk_text call
\* Offsets at which pat occurs in s.
Occurrences(s, pat) ==
  {i \in 0..(Len(s) - Len(pat)) : \A j \in 1..Len(pat) : s[i + j] = pat[j]}

\* The largest member of a non-empty set of offsets.
Last(S) == CHOOSE i \in S : \A j \in S : j <= i

\* An offset into a window lies strictly after 30% of the chunk size.
After30(i) == 10 * i > 3 * chunk_size

\* The uncut window of the k-th loop iteration.
WindowAt(k) == Slice(text, windows[k].start, windows[k].start + chunk_size)

\* The slice text[start:end] of the k-th loop iteration.
SliceAt(k) == Slice(text, windows[k].start, windows[k].end)

\* The iterations whose chunk was appended.
Kept == {k \in 1..Len(windows) : windows[k].final \/ strip(SliceAt(k)) # <<>>}

\* The n-th smallest member of Kept.
KeptAt(n) == CHOOSE k \in Kept : Cardinality({j \in Kept : j <= k}) = n

\* The first n slices joined.
RECURSIVE JoinedSlices(_)
JoinedSlices(n) == IF n = 0 THEN <<>> ELSE JoinedSlices(n - 1) \o SliceAt(n)

\* C4: no chunk returned by chunk_text is the empty string.
C4_NoEmptyChunk == \A k \in 1..Len(chunks) : chunks[k] # <<>>

\* C5: the chunks are, in order, the trimmed forms of consecutive slices of
\* the text that are contiguous, non-overlapping and cover the text: the
\* slices begin at 0, each begins where the one before ends, none is empty,
\* they reach the scan position (the end of the text once chunk_text has
\* returned), and re-joined they are the text read so far.
C5_Reconstructs ==
  cpc # "idle" =>
    /\ \A k \in 1..Len(windows) :
         /\ windows[k].start = (IF k = 1 THEN 0 ELSE windows[k - 1].end)
         /\ windows[k].start < windows[k].end
         /\ windows[k].end <= Len(text)
    /\ Len(chunks) = Cardinality(Kept)
    /\ \A n \in 1..Len(chunks) : chunks[n] = strip(SliceAt(KeptAt(n)))
    /\ cpc = "loop" => JoinedSlices(Len(windows)) = Slice(text, 0, start)
    /\ cpc = "done" => JoinedSlices(Len(windows)) = text

\* C5 witness: a returned call with three slices or more, one of them
\* dropped as blank and one of them shortened by trimming.
C5_Witness ==
  /\ cpc = "done"
  /\ Len(windows) >= 3
  /\ \E k \in 1..Len(windows) : k \notin Kept
  /\ \E k \in Kept : strip(SliceAt(k)) # SliceAt(k)

\* The cut the claim C9 states, as an offset into the window w.
ClaimedCut(w) ==
  LET fences  == Occurrences(w, FENCE)
      breaks  == Occurrences(w, PARA)
      periods == Occurrences(w, SENTENCE)
  IN  IF fences # {} /\ After30(Last(fences)) THEN Last(fences)
      ELSE IF breaks # {} /\ After30(Last(breaks)) THEN Last(breaks)
      ELSE IF periods # {} /\ After30(Last(periods)) THEN Last(periods) + 1
      ELSE chunk_size

\* The cut of the amended claim: a sentence end is considered only in a
\* window without any paragraph break.
AmendedCut(w) ==
  LET fences  == Occurrences(w, FENCE)
      breaks  == Occurrences(w, PARA)
      periods == Occurrences(w, SENTENCE)
  IN  IF fences # {} /\ After30(Last(fences)) THEN Last(fences)
      ELSE IF breaks # {} /\ After30(Last(breaks)) THEN Last(breaks)
      ELSE IF breaks = {} /\ periods # {} /\ After30(Last(periods)) THEN Last(periods) + 1
      ELSE chunk_size

\* C9 as claimed: every non-final window is cut at the last fence past 30%,
\* else at the last paragraph break past 30%, else just after the last
\* sentence end past 30%, else at the raw window boundary.
C9_ClaimedPrecedence ==
  \A k \in 1..Len(windows) :
    ~windows[k].final => windows[k].end = windows[k].start + ClaimedCut(WindowAt(k))

\* C9 amended: as claimed, except that the sentence end is used only when
\* the window holds no paragraph break at all; a window whose last paragraph
\* break lies at or before 30% is cut at the raw window boundary.
C9_AmendedPrecedence ==
  \A k \in 1..Len(windows) :
    ~windows[k].final => windows[k].end = windows[k].start + AmendedCut(WindowAt(k))

\* C9 witness: a non-final window whose paragraph breaks all lie at or
\* before 30%, that holds a sentence end after 30%, and that was cut at the
\* raw window boundary.
C9_Witness ==
  \E k \in 1..Len(windows) :
    LET w == WindowAt(k)
    IN  /\ ~windows[k].final
        /\ Occurrences(w, FENCE) = {}
        /\ Occurrences(w, PARA) # {}
        /\ ~After30(Last(Occurrences(w, PARA)))
        /\ \E i \in Occurrences(w, SENTENCE) : After30(i)
        /\ windows[k].end = windows[k].start + chunk_size

\* C10: when the last code fence of a non-final window lies after 30%, the
\* slice ends immediately before that fence and the fence begins the next
\* slice.
C10_CutBeforeFence ==
  \A k \in 1..Len(windows) :
    LET fences == Occurrences(WindowAt(k), FENCE)
    IN  (~windows[k].final /\ fences # {} /\ After30(Last(fences))) =>
          /\ windows[k].end = windows[k].start + Last(fences)
          /\ Slice(text, windows[k].end, windows[k].end + 3) = FENCE
          /\ IF k < Len(windows) THEN windows[k + 1].start = windows[k].end
             ELSE start = windows[k].end

\* C10 witness: such a window with a paragraph break or a sentence end
\* after its last fence.
C10_Witness ==
  \E k \in 1..Len(windows) :
    LET w      == WindowAt(k)
        fences == Occurrences(w, FENCE)
    IN  /\ ~windows[k].final
        /\ fences # {}
        /\ After30(Last(fences))
        /\ \/ \E i \in Occurrences(w, PARA) : i > Last(fences)
           \/ \E i \in Occurrences(w, SENTENCE) : i > Last(fences)
        /\ windows[k].end = windows[k].start + Last(fences)

\* C11 as claimed: a text shorter than the chunk size comes back as exactly
\* one chunk, the text with leading and trailing whitespace removed.
C11_ShortTextOneChunk ==
  (cpc = "done" /\ Len(text) < chunk_size) => chunks = <<strip(text)>>

\* C11 amended: a non-empty text shorter than the chunk size comes back as
\* exactly one chunk, the text with leading and trailing whitespace removed;
\* the empty text comes back as no chunk at all.
C11_ShortNonEmptyOneChunk ==
  (cpc = "done" /\ Len(text) < chunk_size) =>
    chunks = (IF text = <<>> THEN <<>> ELSE <<strip(text)>>)

\* C11 witness: a returned call on a text shorter than the chunk size that
\* has whitespace to trim at an end and letters to keep.
C11_Witness ==
  /\ cpc = "done"
  /\ Len(text) < chunk_size
  /\ strip(text) # text
  /\ strip(text) # <<>>
  /\ chunks = <<strip(text)>>

\* The text consists of ordinary letters only: no fence, no newline, no
\* period, no blank.
PlainText == \A i \in 1..Len(text) : text[i] = "a"

\* ceil(a / b) for b > 0.
CeilDiv(a, b) == (a + b - 1) \div b

\* C12: a text of L ordinary letters comes back as ceil(L/S) chunks, each of
\* length S except the last, which holds the L - S*(ceil(L/S) - 1) letters
\* that remain.
C12_PlainTextRawCuts ==
  (cpc = "done" /\ PlainText) =>
    LET L == Len(text)
        S == chunk_size
        n == CeilDiv(L, S)
    IN  /\ Len(chunks) = n
        /\ \A k \in 1..Len(chunks) :
             Len(chunks[k]) = (IF k < n THEN S ELSE L - S * (n - 1))

\* C12 witness: a returned call on ordinary letters with two chunks or more,
\* the last of them shorter than the chunk size.
C12_Witness ==
  /\ cpc = "done"
  /\ PlainText
  /\ Len(chunks) >= 2
  /\ Len(chunks[Len(chunks)]) < chunk_size
  /\ Len(chunks[1]) = chunk_size

\* The rows of the table that hold chunk i of the page of u.
RowsOf(u, i) ==
  {k \in 1..Len(rows) : rows[k].url = u /\ rows[k].chunk_number = ChunkNumber(i)}

\* C13: a failed store insert is reported, not raised: insert_chunk has
\* returned the store's result or None once its task is done; a failed
\* insert leaves no row, then or later (no retry); a successful insert
\* leaves exactly one row, whatever its siblings do (no rollback); the
\* pipeline goes on only after every insert of the document was attempted;
\* and no process_url task and no run ends with an exception after its
\* inserts began.
C13_InsertFailureReported ==
  /\ \A u \in Urls : \A i \in 1..Len(ipc[u]) :
       /\ ipc[u][i] = "done" <=> ires[u][i] \in {"result", "None"}
       /\ ires[u][i] = "None" => RowsOf(u, i) = {}
       /\ ires[u][i] = "result" => Cardinality(RowsOf(u, i)) = 1
  /\ \A u \in Urls :
       /\ upc[u] \in {"inserted", "done"} =>
            \A i \in 1..Len(ipc[u]) : ipc[u][i] = "done"
       /\ upc[u] = "raised" => ipc[u] = <<>>
  /\ main_exc => \E u \in Urls : upc[u] = "raised"

\* C13 witness: a run that returned normally in which, for one document, the
\* first insert succeeded, the insert of its sibling failed afterwards, and
\* the row of the first is still in the table.
C13_Witness ==
  /\ main_pc = "done"
  /\ ~main_exc
  /\ \E u \in Urls :
       /\ upc[u] = "done"
       /\ ires[u] = <<"result", "None">>
       /\ Cardinality(RowsOf(u, 1)) = 1

\* The step in which process_chunk (u, i) receives what get_title_and_summary
\* returns.
TitleReturns(u, i) == epc[u][i] = "title_done" /\ epc'[u][i] = "embed"

\* The step in which process_chunk (u, i) returns its record.
ChunkReturns(u, i) == epc[u][i] = "embed_done" /\ epc'[u][i] = "done"

\* C14: a completion call that raises gives the sentinel title and summary
\* and one that answers well gives the answer's; the pair is kept until the
\* record is built; a record is built with that title and summary, with the
\* zero vector of 1536 entries when the embeddings call raised and with the
\* provider's vector when it did not, and with the chunk_number, url and
\* content the task was given.  So two failing calls give the sentinel pair
\* with the zero vector, and one failing call replaces its own result only.
C14_FailedCallsReplaced ==
  [][\A u \in Urls : \A i \in 1..Len(epc[u]) :
       /\ TitleReturns(u, i) =>
            /\ tresp[u][i] = "error" => extracted'[u][i] = Sentinel
            /\ tresp[u][i] = "ok" => extracted'[u][i] = [title |-> "T", summary |-> "S"]
       /\ (epc[u][i] \in {"embed", "embed_done"} /\ epc'[u][i] \in {"embed", "embed_done"}) =>
            extracted'[u][i] = extracted[u][i]
       /\ ChunkReturns(u, i) =>
            /\ processed'[u][i].title = extracted[u][i].title
            /\ processed'[u][i].summary = extracted[u][i].summary
            /\ processed'[u][i].embedding =
                 [dim |-> 1536, zero |-> (eresp[u][i] = "error")]
            /\ processed'[u][i].chunk_number = ChunkNumber(i)
            /\ processed'[u][i].url = u
            /\ processed'[u][i].content = doc_chunks[u][i]
            /\ doc_chunks[u][i] = chunk_text(site[u].markdown, DocChunkSize)[i]
  ]_vars

\* C14 witness: one document with a record built after both calls failed
\* (sentinel pair, zero vector) and a record built after the embeddings call
\* alone failed (the provider's title with the zero vector).
C14_Witness ==
  \E u \in Urls :
    /\ Len(processed[u]) = 2
    /\ epc[u] = <<"done", "done">>
    /\ processed[u][1].title = Sentinel.title
    /\ processed[u][1].summary = Sentinel.summary
    /\ processed[u][1].embedding = [dim |-> 1536, zero |-> TRUE]
    /\ processed[u][1].chunk_number = 0
    /\ processed[u][2].title = "T"
    /\ processed[u][2].embedding = [dim |-> 1536, zero |-> TRUE]
    /\ processed[u][2].chunk_number = 1

\* The event loop keeps running callbacks and every external call completes:
\* some enabled step is eventually taken.
FairSpec == Spec /\ WF_vars(Next)

\* Under FairSpec crawl_parallel finishes, and so does asyncio.run.
RunTerminates == <>(main_pc = "done" /\ torn)

\* C15: the run completes and no failure aborts sibling work or the run:
\* once crawl_parallel has finished it has returned normally, every URL was
\* admitted and fetched once, and every process_url task has ended, none of
\* them still waiting at the gate or in flight.
C15_RunCompletes ==
  main_pc = "done" =>
    /\ ~main_exc
    /\ \A u \in Urls : fetches[u] = 1 /\ upc[u] = "done"

GateFreeAtReturn == main_pc = "done" => sem_value = max_concurrent

\* C17: every chunk, the final remainder included, has at most chunk_size
\* characters.
C17_ChunkBounded == \A k \in 1..Len(chunks) : Len(chunks[k]) <= chunk_size

\* C17 witness: a returned call with two chunks or more whose final
\* remainder fills the chunk size exactly.
C17_Witness ==
  /\ cpc = "done"
  /\ Len(chunks) >= 2
  /\ windows[Len(windows)].final
  /\ Len(chunks[Len(chunks)]) = chunk_size

\* The scan position after the k-th loop iteration.
StartAfter(k) == IF k < Len(windows) THEN windows[k + 1].start ELSE start

\* The interpreter keeps executing the loop of chunk_text.
FairChunkSpec == ChunkSpec /\ WF_vars(ChunkNext)

\* Under FairChunkSpec every call of chunk_text returns.
ChunkTerminates == <>(cpc = "done")

\* C18: a call of chunk_text ends: every iteration that does not break moves
\* the scan position strictly forward, to max(start + 1, end); the position
\* never passes the end of the text; and the loop has run at most len(text)
\* times, in the middle of a call and at its end, each time adding at most
\* one chunk.
C18_StartAdvances ==
  cpc # "idle" =>
    /\ \A k \in 1..Len(windows) :
         ~windows[k].final =>
           /\ StartAfter(k) > windows[k].start
           /\ StartAfter(k) = Max(windows[k].start + 1, windows[k].end)
    /\ Len(windows) <= Len(text)
    /\ cpc = "loop" => Len(windows) <= start
    /\ start <= Len(text)
    /\ Len(chunks) <= Len(windows)

\* C18 witness: a returned call whose loop ran len(text) times, on a text of
\* three characters or more.
C18_Witness ==
  /\ cpc = "done"
  /\ Len(text) >= 3
  /\ Len(windows) = Len(text)

\* C19: every non-final cut leaves a slice strictly longer than 30% of the
\* chunk size and never longer than the chunk size, so the cut lies after
\* the scan position and the next scan position is the cut itself, never
\* start + 1.
C19_CutPastThreshold ==
  \A k \in 1..Len(windows) :
    ~windows[k].final =>
      /\ After30(windows[k].end - windows[k].start)
      /\ windows[k].end - windows[k].start <= chunk_size
      /\ windows[k].end > windows[k].start
      /\ StartAfter(k) = windows[k].end
      /\ windows[k].start + 1 <= windows[k].end

\* C19 witness: a non-final window with a delimiter at offset 0, which is
\* not taken, cut at the raw window boundary, and in the same call a
\* non-final window cut at a delimiter, short of the window boundary.
C19_Witness ==
  /\ \E k \in 1..Len(windows) :
       /\ ~windows[k].final
       /\ 0 \in (Occurrences(WindowAt(k), PARA) \cup Occurrences(WindowAt(k), FENCE))
       /\ windows[k].end = windows[k].start + chunk_size
  /\ \E k \in 1..Len(windows) :
       /\ ~windows[k].final
       /\ windows[k].end < windows[k].start + chunk_size

\* The first insert of the document of u has run and its last has not.
MidInserts(u) ==
  /\ \E i \in 1..Len(ipc[u]) : ipc[u][i] = "done"
  /\ \E i \in 1..Len(ipc[u]) : ipc[u][i] = "new"

\* The first insert of u that has not run.
NextInsert(u) ==
  CHOOSE i \in 1..Len(ipc[u]) :
    ipc[u][i] = "new" /\ \A j \in 1..(i - 1) : ipc[u][j] # "new"

====
